---- MODULE Spec2Model ----
(***************************************************************************)
(* Model of bcicen/apiproxy: the caching http.RoundTripper                 *)
(* (httpcache.Transport) and the in-memory store with lazy TTL expiry      *)
(* (httpcache.MemoryCache).  Goroutines calling into the transport or the  *)
(* store are the processes of the model; each lock acquisition, each map   *)
(* access under the lock and each return is a step, so that every          *)
(* interleaving the RWMutex admits is explored.                            *)
(***************************************************************************)
EXTENDS Integers, Sequences, FiniteSets, TLC

\* ------------------------------------------------------------------ bounds
NumProcs == 2
MaxOps == 3
MaxTime == 2
MaxTTL == 1

Procs == 1..NumProcs

\* ------------------------------------------------------------ program data
XFromCache == "X-Aproxy-From-Cache"
XCacheable == "X-Aproxy-Cacheable"
StatusNotModified == 304

\* The URL the clients of the transport ask for, and the keys the holders of
\* the store use.
URLs == {"http://x/a"}
Keys == URLs \cup {"http://x/b"}
Methods == {"GET", "HEAD", "POST"}

\* The values of the request's Range header, in the order they were sent.
RangeValues == {<<>>, <<"">>, <<"bytes=0-10">>}

\* http.Header.Get: the first value of the header, "" when it has none.
HeaderGet(vals) == IF Len(vals) = 0 THEN "" ELSE vals[1]

\* Mutant: the header is left on the request.
HeaderDelNothing(r) == r

\* http.Header.Del on the If-None-Match header of the request.
HeaderDelIfNoneMatch(r) == [r EXCEPT !.IfNoneMatch = FALSE]

MkReq(m, u, rng, inm) ==
    [Method |-> m, URL |-> u, Range |-> rng, IfNoneMatch |-> inm]

\* The requests the callers make: every method without a Range header, the
\* HEAD and the POST carrying If-None-Match, and GET with each shape of Range
\* header.
Requests ==
    { MkReq(m, u, <<>>, m # "GET") : m \in Methods, u \in URLs }
    \cup { MkReq("GET", u, rng, FALSE) : u \in URLs, rng \in RangeValues }

NoReq == [Method |-> "", URL |-> "", Range |-> <<>>, IfNoneMatch |-> FALSE]

\* The names of the response headers the model tells apart, in the sorted
\* order in which Header.Write emits them.
HeaderOrder == <<"Etag", XCacheable, XFromCache>>

NoHeader == [n \in {} |-> <<>>]
EtagHeader == [n \in {"Etag"} |-> <<"v1">>]
MarkerHeader == [n \in {XFromCache} |-> <<"0">>]

MkResp(code, hdr, body) == [StatusCode |-> code, Header |-> hdr, Body |-> body]

\* A nil *http.Response.
NilResp == MkResp(0, NoHeader, "")

\* What the underlying transport may answer: (resp, err, whether reading the
\* body fails part way).
OriginResps ==
    { MkResp(200, EtagHeader, "hello"),
      MkResp(200, MarkerHeader, "hello"),
      MkResp(StatusNotModified, NoHeader, ""),
      MkResp(404, NoHeader, "gone") }

OriginOutcomes ==
    { [resp |-> r, err |-> "", bodyErr |-> FALSE] : r \in OriginResps }
    \cup { [resp |-> MkResp(200, EtagHeader, "hello"), err |-> "",
            bodyErr |-> TRUE] }
    \cup { [resp |-> NilResp, err |-> "dial tcp: refused", bodyErr |-> FALSE],
           [resp |-> MkResp(200, EtagHeader, "hello"),
            err |-> "dial tcp: refused", bodyErr |-> FALSE] }

\* ----------------------------------------------------- the wire format
\* A serialized response is a sequence of lines: the status line, one line
\* per header value, the blank line, and the body.
Line(kind, name, value, code) ==
    [kind |-> kind, name |-> name, value |-> value, code |-> code]

StatusLine(code) == Line("status", "", "", code)
HeaderLine(n, v) == Line("header", n, v, 0)
BlankLine == Line("blank", "", "", 0)
BodyLine(b) == Line("body", "", b, 0)
GarbageLine == Line("garbage", "", "", 0)

RECURSIVE HeaderValueLines(_, _, _)
HeaderValueLines(n, vals, i) ==
    IF i > Len(vals) THEN <<>>
    ELSE <<HeaderLine(n, vals[i])>> \o HeaderValueLines(n, vals, i + 1)

RECURSIVE HeaderLines(_, _)
HeaderLines(hdr, i) ==
    IF i > Len(HeaderOrder) THEN <<>>
    ELSE (IF HeaderOrder[i] \in DOMAIN hdr
          THEN HeaderValueLines(HeaderOrder[i], hdr[HeaderOrder[i]], 1)
          ELSE <<>>) \o HeaderLines(hdr, i + 1)

\* Mutant: DumpResponse(resp, false), which leaves the body out.
DumpResponseNoBody(resp, r) ==
    <<StatusLine(resp.StatusCode)>> \o HeaderLines(resp.Header, 1)
        \o <<BlankLine>>

\* httputil.DumpResponse(resp, true) when the body can be read.  A response
\* to a HEAD request is written without a body.
DumpResponse(resp, r) ==
    <<StatusLine(resp.StatusCode)>> \o HeaderLines(resp.Header, 1)
        \o <<BlankLine>>
        \o (IF r.Method = "HEAD" \/ resp.Body = "" THEN <<>>
            ELSE <<BodyLine(resp.Body)>>)

AddHeaderValue(hdr, n, v) ==
    [x \in DOMAIN hdr \cup {n} |->
        IF x = n THEN (IF n \in DOMAIN hdr THEN Append(hdr[n], v) ELSE <<v>>)
        ELSE hdr[x]]

\* textproto's header block: header lines up to the blank line.
RECURSIVE ReadHeader(_, _, _)
ReadHeader(b, i, hdr) ==
    IF i > Len(b) THEN [ok |-> FALSE, hdr |-> hdr, next |-> i]
    ELSE IF b[i].kind = "blank" THEN [ok |-> TRUE, hdr |-> hdr, next |-> i + 1]
    ELSE IF b[i].kind = "header"
         THEN ReadHeader(b, i + 1, AddHeaderValue(hdr, b[i].name, b[i].value))
    ELSE [ok |-> FALSE, hdr |-> hdr, next |-> i]

\* bytesToResp: http.ReadResponse over the stored bytes, for request r.
bytesToResp(b, r) ==
    IF Len(b) = 0 \/ b[1].kind # "status"
    THEN [resp |-> NilResp, err |-> "malformed HTTP response"]
    ELSE LET h == ReadHeader(b, 2, NoHeader) IN
         IF ~h.ok THEN [resp |-> NilResp, err |-> "unexpected EOF"]
         ELSE [resp |-> MkResp(b[1].code, h.hdr,
                           IF r.Method # "HEAD" /\ h.next <= Len(b)
                                /\ b[h.next].kind = "body"
                           THEN b[h.next].value ELSE ""),
               err |-> ""]

\* Mutant: the header is not set.
SetFromCacheNot(resp) == resp

\* resp.Header.Set(XFromCache, "1")
SetFromCache(resp) ==
    [resp EXCEPT !.Header =
        [x \in DOMAIN resp.Header \cup {XFromCache} |->
            IF x = XFromCache THEN <<"1">> ELSE resp.Header[x]]]

\* The key under which a request's response is stored: the request URL.
cacheKey(r) == r.URL

\* Byte values that a holder of the store may Set directly: something that
\* is no HTTP response, and a well-formed one.
NilBytes == <<>>
GarbageBytes == <<GarbageLine>>
ExtBytes ==
    { GarbageBytes,
      <<StatusLine(200), BlankLine, BodyLine("ext")>> }

\* ------------------------------------------------------------------ state
VARIABLES
    items,      \* MemoryCache.items: key -> bytes
    ts,         \* MemoryCache.ts: key -> insertion time
    maxTTL,     \* MemoryCache.maxTTL
    readers,    \* goroutines holding MemoryCache.mu for reading
    writer,     \* the goroutine holding MemoryCache.mu for writing, or 0
    now,        \* the monotonic clock
    pc,         \* where each goroutine is
    op,         \* the call each goroutine is in
    req,        \* RoundTrip: the request
    cacheable,  \* RoundTrip: the local of that name
    key,        \* Get/Set/Delete: the key argument
    val,        \* Set: the bytes argument
    gResp,      \* Get: resp as read from items
    gOk,        \* Get: ok as read from items
    gTs,        \* Get: ts
    fwd,        \* RoundTrip: what the underlying transport returned
    ret,        \* what the call returned
    \* History, read by the properties only:
    nGet,       \* Cache.Get calls made by the goroutine's RoundTrip
    nSet,       \* Cache.Set calls made by it
    nFwd,       \* calls of the underlying transport made by it
    chk,        \* the clock when the goroutine's Get made its expiry check
    last,       \* per key, the last Set or Delete that took the lock
    first,      \* per goroutine, last[key] as its call started
    intr,       \* per goroutine, the kinds of other goroutines' Set and Delete
                \* on its key in flight at some time during its call
    ops         \* calls started so far

vars == <<items, ts, maxTTL, readers, writer, now, pc, op, req, cacheable,
          key, val, gResp, gOk, gTs, fwd, ret, nGet, nSet, nFwd, chk, last,
          first, intr, ops>>

store == <<items, ts, maxTTL>>
lock == <<readers, writer>>
getLocals == <<gResp, gOk, gTs>>
counters == <<nGet, nSet, nFwd>>

NoWriter == 0
\* The zero time.Time, which lies further back than any TTL.
ZeroTime == 0 - 1000

\* had: whether the request carried If-None-Match as RoundTrip reached line 89.
NoFwd == [resp |-> NilResp, err |-> "", bodyErr |-> FALSE, had |-> FALSE]
NoRet == [kind |-> "none", resp |-> NilResp, err |-> "", bytes |-> NilBytes,
          ok |-> FALSE, path |-> ""]

RetResp(resp, err, path) == [NoRet EXCEPT !.kind = "resp", !.resp = resp,
                                          !.err = err, !.path = path]
RetPanic(err) == [NoRet EXCEPT !.kind = "panic", !.err = err, !.path = "hit"]
RetGet(b, ok) == [NoRet EXCEPT !.kind = "get", !.bytes = b, !.ok = ok]
RetVoid == [NoRet EXCEPT !.kind = "void"]

\* kind: "none", or who changed the entry last: "Set" and "Delete" are direct
\* calls, "store" is RoundTrip's Set, "expire" is Get's Delete.  over: whether
\* a Set replaced an entry that had expired and was still in the map.  fresh:
\* whether a Delete removed an entry that had not expired.  quiet: the Set,
\* called on the store directly, has returned and no Set or Delete of the key
\* has been called since.
NoLast == [kind |-> "none", bytes |-> NilBytes, at |-> ZeroTime,
           method |-> "", over |-> FALSE, fresh |-> FALSE, quiet |-> FALSE]

\* NewMemoryCache(maxTTL) with maxTTL > 0, and NewTransport over it.
Init ==
    /\ items = [k \in {} |-> NilBytes]
    /\ ts = [k \in {} |-> 0]
    /\ maxTTL \in 1..MaxTTL
    /\ readers = {}
    /\ writer = NoWriter
    /\ now = 0
    /\ pc = [p \in Procs |-> "idle"]
    /\ op = [p \in Procs |-> "none"]
    /\ req = [p \in Procs |-> NoReq]
    /\ cacheable = [p \in Procs |-> FALSE]
    /\ key = [p \in Procs |-> ""]
    /\ val = [p \in Procs |-> NilBytes]
    /\ gResp = [p \in Procs |-> NilBytes]
    /\ gOk = [p \in Procs |-> FALSE]
    /\ gTs = [p \in Procs |-> ZeroTime]
    /\ fwd = [p \in Procs |-> NoFwd]
    /\ ret = [p \in Procs |-> NoRet]
    /\ nGet = [p \in Procs |-> 0]
    /\ nSet = [p \in Procs |-> 0]
    /\ nFwd = [p \in Procs |-> 0]
    /\ chk = [p \in Procs |-> 0]
    /\ last = [k \in Keys |-> NoLast]
    /\ first = [p \in Procs |-> NoLast]
    /\ intr = [p \in Procs |-> {}]
    /\ ops = 0

\* ------------------------------------------------------------ map helpers
\* Mutant: the value lands in every entry of the map.
MapPutAll(m, k, v) == [x \in DOMAIN m \cup {k} |-> v]

\* Mutant: an entry that is there is not overwritten.
MapPutIfAbsent(m, k, v) ==
    [x \in DOMAIN m \cup {k} |-> IF x \in DOMAIN m THEN m[x] ELSE v]

\* m[k] = v
MapPut(m, k, v) == [x \in DOMAIN m \cup {k} |-> IF x = k THEN v ELSE m[x]]
\* Mutant: the map is emptied.
MapDeleteAll(m, k) == [x \in {} |-> m[x]]

\* delete(m, k)
MapDelete(m, k) == [x \in DOMAIN m \ {k} |-> m[x]]

\* Mutant: an entry that has a timestamp keeps it.
StampIfAbsent(m, k, t) == IF k \in DOMAIN m THEN m ELSE MapPut(m, k, t)

\* c.ts[key] = time.Now(), with the clock reading t.
Stamp(m, k, t) == MapPut(m, k, t)

\* Mutant: the subtraction the wrong way round.
SinceReversed(tsv, t) == tsv - t

\* time.Since(ts), with the clock reading t.
Since(tsv, t) == t - tsv

\* Mutant: an entry expires as its age reaches the TTL.
ExpiredAtTTL(tsv, t) == Since(tsv, t) >= maxTTL

\* time.Since(ts) > c.maxTTL, with the clock reading t.
Expired(tsv, t) == Since(tsv, t) > maxTTL

\* Mutant: only GET is cacheable.
CacheableGetOnly(r) == r.Method = "GET" /\ HeaderGet(r.Range) = ""

\* Mutant: the Range header is not looked at.
CacheableAnyRange(r) == r.Method = "GET" \/ r.Method = "HEAD"

\* (req.Method == "GET" || req.Method == "HEAD") && req.Header.Get("range") == ""
Cacheable(r) == (r.Method = "GET" \/ r.Method = "HEAD") /\ HeaderGet(r.Range) = ""

\* Mutant: only a 200 is stored.
NotStorableUnlessOK(o) == o.err # "" \/ o.resp.StatusCode # 200

\* Mutant: a 304 is stored like any other response.
NotStorableErrOnly(o) == o.err # ""

\* Mutant: the transport's error is not looked at.
NotStorable304Only(o) == o.resp.StatusCode = StatusNotModified

\* err != nil || resp.StatusCode == http.StatusNotModified
NotStorable(o) == o.err # "" \/ o.resp.StatusCode = StatusNotModified

\* ---------------------------------------------------------------- history
\* The kind of the Set or Delete goroutine q is in, "" when in neither.
Mutating(q) ==
    IF pc[q] \in {"set", "set_locked"}
    THEN (IF op[q] = "RoundTrip" THEN "store" ELSE "Set")
    ELSE IF pc[q] \in {"delete", "delete_locked"}
    THEN (IF op[q] = "Delete" THEN "Delete" ELSE "expire")
    ELSE ""

\* A Set or Delete of key k is called.
Unquiet(l, k) == [l EXCEPT ![k].quiet = FALSE]

\* Goroutine p starts a call on key k.
Started(p, k) ==
    /\ last' = last
    /\ first' = [first EXCEPT ![p] = IF k \in Keys THEN last[k] ELSE NoLast]
    /\ \/ /\ k \notin Keys
          /\ intr' = intr
       \/ /\ k \in Keys
          /\ intr' = [intr EXCEPT ![p] =
                {Mutating(q) : q \in {x \in Procs \ {p} : key[x] = k}} \ {""}]

\* intr as goroutine p enters a Set or Delete of kind c on key k: the calls
\* on k that are under way get c, and a Get called on the store directly
\* gets "late" as well, for a call that came after the Get started.
Disturbed(f, p, k, c) ==
    [q \in Procs |->
        IF q # p /\ pc[q] # "idle" /\ key[q] = k
        THEN f[q] \cup {c} \cup (IF op[q] = "Get" THEN {"late"} ELSE {})
        ELSE f[q]]

\* Goroutine p starts a Set or Delete of kind c on key k.
StartedMutating(p, k, c) ==
    /\ last' = Unquiet(last, k)
    /\ first' = [first EXCEPT ![p] = last[k]]
    /\ intr' = [Disturbed(intr, p, k, c) EXCEPT ![p] =
                {Mutating(q) : q \in {x \in Procs \ {p} : key[x] = k}} \ {""}]

\* ----------------------------------------------------------------- clock
Tick ==
    /\ now < MaxTime
    /\ now' = now + 1
    /\ UNCHANGED <<store, lock, pc, op, req, cacheable, key, val, getLocals,
                   fwd, ret, counters, chk, last, first, intr, ops>>

\* ------------------------------------------------------- calls that start
Start(p, kind) ==
    /\ pc[p] = "idle"
    /\ ops < MaxOps
    /\ ops' = ops + 1
    /\ op' = [op EXCEPT ![p] = kind]
    /\ UNCHANGED <<store, lock, now, getLocals, fwd, ret, nSet, nFwd, chk>>

\* RoundTrip, line 74 to the call of lookup (or past it).
RoundTripBegin(p, r) ==
    /\ Start(p, "RoundTrip")
    /\ req' = [req EXCEPT ![p] = r]
    /\ cacheable' = [cacheable EXCEPT ![p] = Cacheable(r)]
    /\ key' = [key EXCEPT ![p] = IF Cacheable(r) THEN cacheKey(r) ELSE ""]
    /\ nGet' = [nGet EXCEPT ![p] = IF Cacheable(r) THEN 1 ELSE 0]
    /\ pc' = [pc EXCEPT ![p] = IF Cacheable(r) THEN "get" ELSE "forward"]
    /\ Started(p, IF Cacheable(r) THEN cacheKey(r) ELSE "")
    /\ val' = val

GetBegin(p, k) ==
    /\ Start(p, "Get")
    /\ key' = [key EXCEPT ![p] = k]
    /\ pc' = [pc EXCEPT ![p] = "get"]
    /\ Started(p, k)
    /\ UNCHANGED <<req, cacheable, val, nGet>>

SetBegin(p, k, b) ==
    /\ Start(p, "Set")
    /\ key' = [key EXCEPT ![p] = k]
    /\ val' = [val EXCEPT ![p] = b]
    /\ pc' = [pc EXCEPT ![p] = "set"]
    /\ StartedMutating(p, k, "Set")
    /\ UNCHANGED <<req, cacheable, nGet>>

DeleteBegin(p, k) ==
    /\ Start(p, "Delete")
    /\ key' = [key EXCEPT ![p] = k]
    /\ pc' = [pc EXCEPT ![p] = "delete"]
    /\ StartedMutating(p, k, "Delete")
    /\ UNCHANGED <<req, cacheable, val, nGet>>

\* The caller takes the result; the goroutine's frame is gone.
Return(p) ==
    /\ pc[p] = "done"
    /\ pc' = [pc EXCEPT ![p] = "idle"]
    /\ op' = [op EXCEPT ![p] = "none"]
    /\ req' = [req EXCEPT ![p] = NoReq]
    /\ cacheable' = [cacheable EXCEPT ![p] = FALSE]
    /\ key' = [key EXCEPT ![p] = ""]
    /\ val' = [val EXCEPT ![p] = NilBytes]
    /\ gResp' = [gResp EXCEPT ![p] = NilBytes]
    /\ gOk' = [gOk EXCEPT ![p] = FALSE]
    /\ gTs' = [gTs EXCEPT ![p] = ZeroTime]
    /\ fwd' = [fwd EXCEPT ![p] = NoFwd]
    /\ ret' = [ret EXCEPT ![p] = NoRet]
    /\ nGet' = [nGet EXCEPT ![p] = 0]
    /\ nSet' = [nSet EXCEPT ![p] = 0]
    /\ nFwd' = [nFwd EXCEPT ![p] = 0]
    /\ chk' = [chk EXCEPT ![p] = 0]
    /\ first' = [first EXCEPT ![p] = NoLast]
    /\ intr' = [intr EXCEPT ![p] = {}]
    /\ UNCHANGED <<store, lock, now, last, ops>>

\* -------------------------------------------------------- Transport.lookup
\* What lookup makes of the bytes Get found: bytesToResp, panic on its error,
\* otherwise the response with the from-cache header set.
LookupHit(b, r) ==
    LET x == bytesToResp(b, r) IN
    IF x.err # "" THEN RetPanic(x.err)
    ELSE RetResp(SetFromCache(x.resp), "", "hit")

\* --------------------------------------------------------- MemoryCache.Get
\* Mutant: the maps are read without waiting for the writer to unlock.
GetRLockUnguarded(p) ==
    /\ pc[p] = "get"
    /\ readers' = readers \cup {p}
    /\ gOk' = [gOk EXCEPT ![p] = key[p] \in DOMAIN items]
    /\ gResp' = [gResp EXCEPT ![p] =
                    IF key[p] \in DOMAIN items THEN items[key[p]] ELSE NilBytes]
    /\ gTs' = [gTs EXCEPT ![p] =
                    IF key[p] \in DOMAIN ts THEN ts[key[p]] ELSE ZeroTime]
    /\ pc' = [pc EXCEPT ![p] = "get_locked"]
    /\ UNCHANGED <<store, writer, now, op, req, cacheable, key, val, fwd, ret,
                   counters, chk, last, first, intr, ops>>

\* c.mu.RLock(); resp, ok = c.items[key]; ts := c.ts[key]
GetRLock(p) ==
    /\ pc[p] = "get"
    /\ writer = NoWriter
    /\ readers' = readers \cup {p}
    /\ gOk' = [gOk EXCEPT ![p] = key[p] \in DOMAIN items]
    /\ gResp' = [gResp EXCEPT ![p] =
                    IF key[p] \in DOMAIN items THEN items[key[p]] ELSE NilBytes]
    /\ gTs' = [gTs EXCEPT ![p] =
                    IF key[p] \in DOMAIN ts THEN ts[key[p]] ELSE ZeroTime]
    /\ pc' = [pc EXCEPT ![p] = "get_locked"]
    /\ UNCHANGED <<store, writer, now, op, req, cacheable, key, val, fwd, ret,
                   counters, chk, last, first, intr, ops>>

\* Mutant: RoundTrip forwards whatever lookup found.
GetReturnsIgnored(p, b, ok) ==
    IF op[p] = "RoundTrip"
    THEN /\ pc' = [pc EXCEPT ![p] = "forward"]
         /\ ret' = ret
    ELSE /\ pc' = [pc EXCEPT ![p] = "done"]
         /\ ret' = [ret EXCEPT ![p] = RetGet(b, ok)]

\* Mutant: lookup takes bytes it cannot read for a miss.
GetReturnsCorruptMiss(p, b, ok) ==
    IF op[p] = "RoundTrip"
    THEN IF ~ok \/ bytesToResp(b, req[p]).err # ""
         THEN /\ pc' = [pc EXCEPT ![p] = "forward"]
              /\ ret' = ret
         ELSE /\ pc' = [pc EXCEPT ![p] = "done"]
              /\ ret' = [ret EXCEPT ![p] = LookupHit(b, req[p])]
    ELSE /\ pc' = [pc EXCEPT ![p] = "done"]
         /\ ret' = [ret EXCEPT ![p] = RetGet(b, ok)]

\* Get returns (b, ok): to its caller, or into lookup when RoundTrip called
\* it; lookup returns nil on !ok and RoundTrip goes on to forward, otherwise
\* RoundTrip returns what lookup made of the bytes.
GetReturns(p, b, ok) ==
    IF op[p] = "RoundTrip"
    THEN IF ~ok
         THEN /\ pc' = [pc EXCEPT ![p] = "forward"]
              /\ ret' = ret
         ELSE /\ pc' = [pc EXCEPT ![p] = "done"]
              /\ ret' = [ret EXCEPT ![p] = LookupHit(b, req[p])]
    ELSE /\ pc' = [pc EXCEPT ![p] = "done"]
         /\ ret' = [ret EXCEPT ![p] = RetGet(b, ok)]

\* Mutant: the read lock is kept while Get calls Delete.
GetCheckHoldingRLock(p) ==
    /\ pc[p] = "get_locked"
    /\ readers' = IF gOk[p] /\ Expired(gTs[p], now) THEN readers
                  ELSE readers \ {p}
    /\ chk' = [chk EXCEPT ![p] = now]
    /\ IF gOk[p] /\ Expired(gTs[p], now)
       THEN /\ pc' = [pc EXCEPT ![p] = "delete"]
            /\ intr' = Disturbed(intr, p, key[p], "expire")
            /\ last' = Unquiet(last, key[p])
            /\ ret' = ret
       ELSE /\ GetReturns(p, gResp[p], gOk[p])
            /\ intr' = intr
            /\ last' = last
    /\ UNCHANGED <<store, writer, now, op, req, cacheable, key, val,
                   getLocals, fwd, counters, first, ops>>

\* c.mu.RUnlock(); if ok && time.Since(ts) > c.maxTTL { c.Delete(key) ... };
\* return resp, ok
GetCheck(p) ==
    /\ pc[p] = "get_locked"
    /\ readers' = readers \ {p}
    /\ chk' = [chk EXCEPT ![p] = now]
    /\ IF gOk[p] /\ Expired(gTs[p], now)
       THEN /\ pc' = [pc EXCEPT ![p] = "delete"]
            /\ intr' = Disturbed(intr, p, key[p], "expire")
            /\ last' = Unquiet(last, key[p])
            /\ ret' = ret
       ELSE /\ GetReturns(p, gResp[p], gOk[p])
            /\ intr' = intr
            /\ last' = last
    /\ UNCHANGED <<store, writer, now, op, req, cacheable, key, val,
                   getLocals, fwd, counters, first, ops>>

\* ------------------------------------------------------ MemoryCache.Delete
\* Mutant: Get's Delete looks at the timestamp again under the write lock and
\* leaves an entry that has not expired.
DeleteLockRechecked(p) ==
    /\ pc[p] = "delete"
    /\ writer = NoWriter /\ readers = {}
    /\ writer' = p
    /\ ts' = IF op[p] # "Delete" /\ key[p] \in DOMAIN ts
                  /\ ~Expired(ts[key[p]], now)
             THEN ts ELSE MapDelete(ts, key[p])
    /\ last' = [last EXCEPT ![key[p]] = [NoLast EXCEPT !.kind = Mutating(p)]]
    /\ pc' = [pc EXCEPT ![p] = "delete_locked"]
    /\ UNCHANGED <<items, maxTTL, readers, now, op, req, cacheable, key, val,
                   getLocals, fwd, ret, counters, chk, first, intr, ops>>

\* c.mu.Lock(); delete(c.ts, key)
DeleteLock(p) ==
    /\ pc[p] = "delete"
    /\ writer = NoWriter /\ readers = {}
    /\ writer' = p
    /\ ts' = MapDelete(ts, key[p])
    /\ last' = [last EXCEPT ![key[p]] =
                 [NoLast EXCEPT !.kind = Mutating(p),
                                !.fresh = /\ key[p] \in DOMAIN ts
                                          /\ now - ts[key[p]] <= maxTTL]]
    /\ pc' = [pc EXCEPT ![p] = "delete_locked"]
    /\ UNCHANGED <<items, maxTTL, readers, now, op, req, cacheable, key, val,
                   getLocals, fwd, ret, counters, chk, first, intr, ops>>

\* delete(c.items, key); c.mu.Unlock(), and the return: to the caller of
\* Delete, or into Get, which then returns nil, false.
DeleteUnlock(p) ==
    /\ pc[p] = "delete_locked"
    /\ items' = MapDelete(items, key[p])
    /\ writer' = NoWriter
    /\ IF op[p] = "Delete"
       THEN /\ pc' = [pc EXCEPT ![p] = "done"]
            /\ ret' = [ret EXCEPT ![p] = RetVoid]
       ELSE GetReturns(p, NilBytes, FALSE)
    /\ UNCHANGED <<ts, maxTTL, readers, now, op, req, cacheable, key, val,
                   getLocals, fwd, counters, chk, last, first, intr, ops>>

\* --------------------------------------------------------- MemoryCache.Set
\* c.mu.Lock(); c.ts[key] = time.Now()
SetLock(p) ==
    /\ pc[p] = "set"
    /\ writer = NoWriter /\ readers = {}
    /\ writer' = p
    /\ ts' = Stamp(ts, key[p], now)
    /\ last' = [last EXCEPT ![key[p]] =
                 [kind |-> Mutating(p), bytes |-> val[p], at |-> now,
                  method |-> req[p].Method,
                  over |-> key[p] \in DOMAIN ts /\ now - ts[key[p]] > maxTTL,
                  fresh |-> FALSE, quiet |-> FALSE]]
    /\ pc' = [pc EXCEPT ![p] = "set_locked"]
    /\ UNCHANGED <<items, maxTTL, readers, now, op, req, cacheable, key, val,
                   getLocals, fwd, ret, counters, chk, first, intr, ops>>

\* What RoundTrip returns after t.Cache.Set: bytesToResp(respBytes, req).
StoredCopy(b, r) ==
    LET x == bytesToResp(b, r) IN RetResp(x.resp, x.err, "forward")

\* c.items[key] = resp; c.mu.Unlock(), and the return: to the caller of Set,
\* or into RoundTrip, which returns bytesToResp(respBytes, req).
SetUnlock(p) ==
    /\ pc[p] = "set_locked"
    /\ items' = MapPut(items, key[p], val[p])
    /\ writer' = NoWriter
    /\ pc' = [pc EXCEPT ![p] = "done"]
    /\ ret' = [ret EXCEPT ![p] =
                 IF op[p] = "RoundTrip" THEN StoredCopy(val[p], req[p])
                 ELSE RetVoid]
    /\ last' = [last EXCEPT ![key[p]].quiet = (op[p] = "Set")]
    /\ UNCHANGED <<ts, maxTTL, readers, now, op, req, cacheable, key, val,
                   getLocals, fwd, counters, chk, first, intr, ops>>

\* ----------------------------------------------- RoundTrip, lines 84 to 112
\* The request is stripped of If-None-Match and handed to the underlying
\* transport, which answers o; the response is dumped and stored unless it
\* must not be, or cannot be dumped, and then resp and err return as they are.
Forward(p, o) ==
    /\ pc[p] = "forward"
    /\ req' = [req EXCEPT ![p] = HeaderDelIfNoneMatch(req[p])]
    /\ fwd' = [fwd EXCEPT ![p] = [resp |-> o.resp, err |-> o.err,
                                  bodyErr |-> o.bodyErr,
                                  had |-> req[p].IfNoneMatch]]
    /\ nFwd' = [nFwd EXCEPT ![p] = nFwd[p] + 1]
    /\ LET c == cacheable[p] /\ ~NotStorable(o) IN
       /\ cacheable' = [cacheable EXCEPT ![p] = c]
       /\ IF c /\ ~o.bodyErr
          THEN /\ key' = [key EXCEPT ![p] = cacheKey(req[p])]
               /\ val' = [val EXCEPT ![p] = DumpResponse(o.resp, req[p])]
               /\ nSet' = [nSet EXCEPT ![p] = nSet[p] + 1]
               /\ pc' = [pc EXCEPT ![p] = "set"]
               /\ intr' = Disturbed(intr, p, cacheKey(req[p]), "store")
               /\ last' = Unquiet(last, cacheKey(req[p]))
               /\ ret' = ret
          ELSE /\ pc' = [pc EXCEPT ![p] = "done"]
               /\ ret' = [ret EXCEPT ![p] =
                            RetResp(o.resp, o.err, "forward")]
               /\ UNCHANGED <<key, val, nSet, intr, last>>
    /\ UNCHANGED <<store, lock, now, op, getLocals, nGet, chk, first, ops>>

\* -------------------------------------------------------------------- spec
\* The steps inside MemoryCache, whoever called it, and the return.
StoreStep(p) ==
    \/ GetRLock(p)
    \/ GetCheck(p)
    \/ DeleteLock(p)
    \/ DeleteUnlock(p)
    \/ SetLock(p)
    \/ SetUnlock(p)
    \/ Return(p)

\* Goroutines calling RoundTrip on one Transport, beside holders of its
\* store who Set and Delete entries directly.
Next ==
    \/ Tick
    \/ \E p \in Procs, r \in Requests : RoundTripBegin(p, r)
    \/ \E p \in Procs, o \in OriginOutcomes : Forward(p, o)
    \/ \E p \in Procs, k \in URLs : SetBegin(p, k, GarbageBytes)
    \/ \E p \in Procs, k \in URLs : DeleteBegin(p, k)
    \/ \E p \in Procs : StoreStep(p)

Spec == Init /\ [][Next]_vars

\* Goroutines calling Get, Set and Delete on one MemoryCache.
NextStore ==
    \/ Tick
    \/ \E p \in Procs, k \in Keys : GetBegin(p, k)
    \/ \E p \in Procs, k \in Keys, b \in ExtBytes : SetBegin(p, k, b)
    \/ \E p \in Procs, k \in Keys : DeleteBegin(p, k)
    \/ \E p \in Procs : StoreStep(p)

SpecStore == Init /\ [][NextStore]_vars

\* The same, every goroutine inside a call being scheduled again and again:
\* a step of it that stays possible is taken.
SpecStoreFair == SpecStore /\ \A p \in Procs : WF_vars(StoreStep(p))

\* ------------------------------------------------------------- properties
\* A request that is no GET or HEAD, or that carries a non-empty Range header.
Ineligible(r) == r.Method \notin {"GET", "HEAD"} \/ HeaderGet(r.Range) # ""

HasMarker(resp) == XFromCache \in DOMAIN resp.Header
BytesHaveMarker(b) ==
    \E i \in 1..Len(b) : b[i].kind = "header" /\ b[i].name = XFromCache

\* What a hit on the stored bytes b returns for request r.
HitOf(b, r) == RetResp(SetFromCache(bytesToResp(b, r).resp), "", "hit")

\* C1: a RoundTrip whose request is no GET or HEAD, or carries a non-empty
\* Range header, makes no Cache.Get and no Cache.Set, never enters the store,
\* and returns only after handing the request to the underlying transport
\* once, returning what that transport answered.
C1_EligibilityGate ==
    \A p \in Procs :
        (op[p] = "RoundTrip" /\ Ineligible(req[p])) =>
            /\ nGet[p] = 0
            /\ nSet[p] = 0
            /\ pc[p] \in {"forward", "done"}
            /\ pc[p] = "done" =>
                  /\ nFwd[p] = 1
                  /\ ret[p] = RetResp(fwd[p].resp, fwd[p].err, "forward")

\* A GET with a Range header has returned the origin's 200 while the store
\* holds an entry for its URL, written by an earlier RoundTrip.
C1_Witness ==
    \E p \in Procs :
        /\ op[p] = "RoundTrip" /\ pc[p] = "done"
        /\ req[p].Method = "GET" /\ HeaderGet(req[p].Range) # ""
        /\ nFwd[p] = 1 /\ fwd[p].err = "" /\ fwd[p].resp.StatusCode = 200
        /\ req[p].URL \in DOMAIN items
        /\ last[req[p].URL].kind = "store"

\* The second call of C2: a cacheable GET that has returned, started after a
\* GET's RoundTrip stored the entry of its URL, with its store lookup made
\* within the TTL of that entry.
SecondGet(p) ==
    /\ op[p] = "RoundTrip" /\ pc[p] = "done"
    /\ req[p].Method = "GET" /\ ~Ineligible(req[p])
    /\ first[p].kind = "store" /\ first[p].method = "GET"
    /\ chk[p] - first[p].at <= maxTTL

\* C2 as stated: with no Delete of the key in between (and, a case the
\* claim does not even exclude, no direct Set by a holder of the store), the
\* second GET returns the response the first call stored, marked from-cache,
\* and the underlying transport is not called.
C2_Original ==
    \A p \in Procs :
        (SecondGet(p) /\ intr[p] \cap {"Delete", "expire", "Set"} = {}) =>
            /\ ret[p] = HitOf(first[p].bytes, req[p])
            /\ nFwd[p] = 0

\* C2, amended: with no Delete and no Set of the key in between, by any
\* caller, the second GET returns the response the first call stored, marked
\* from-cache, and the underlying transport is not called.
C2_Idempotence ==
    \A p \in Procs :
        (SecondGet(p) /\ intr[p] = {}) =>
            /\ ret[p] = HitOf(first[p].bytes, req[p])
            /\ nFwd[p] = 0

\* The second GET was answered from the store at the very end of the TTL,
\* with the body the origin gave the first call.
C2_Witness ==
    \E p \in Procs :
        /\ SecondGet(p) /\ intr[p] = {}
        /\ chk[p] - first[p].at = maxTTL
        /\ ret[p].path = "hit" /\ ret[p].resp.Body = "hello"
        /\ nFwd[p] = 0

\* C3: a response returned on the hit path carries X-Aproxy-From-Cache: 1; a
\* response returned on the forwarding path carries the header only if the
\* origin sent it; the bytes RoundTrip stores hold the header only if the
\* origin sent it, and a hit writes nothing back to the store.
C3_FromCacheMarker ==
    \A p \in Procs :
        op[p] = "RoundTrip" =>
            /\ (pc[p] = "done" /\ ret[p].kind = "resp" /\ ret[p].path = "hit") =>
                  /\ HasMarker(ret[p].resp)
                  /\ ret[p].resp.Header[XFromCache] = <<"1">>
                  /\ nSet[p] = 0
            /\ (pc[p] = "done" /\ ret[p].kind = "resp"
                    /\ ret[p].path = "forward" /\ ~HasMarker(fwd[p].resp)) =>
                  ~HasMarker(ret[p].resp)
            /\ (pc[p] \in {"set", "set_locked"} /\ ~HasMarker(fwd[p].resp)) =>
                  ~BytesHaveMarker(val[p])

\* A hit returned the marked response, made from stored bytes that a
\* RoundTrip wrote and that do not hold the marker.
C3_Witness ==
    \E p \in Procs :
        /\ op[p] = "RoundTrip" /\ pc[p] = "done"
        /\ ret[p].kind = "resp" /\ ret[p].path = "hit"
        /\ first[p].kind = "store"
        /\ ~BytesHaveMarker(gResp[p])
        /\ ret[p].resp.Header[XFromCache] = <<"1">>

\* C4: once the origin has answered a forwarded request with 304, RoundTrip
\* has returned that response as it is and has made no Cache.Set; when the
\* request was cacheable and no other goroutine's Set or Delete of the key
\* was in flight during the call, the key has no entry, as it had none when
\* the request was forwarded; and no entry of the store holds a 304, so no
\* later request hits one.
C4_NotModifiedPassThrough ==
    /\ \A p \in Procs :
        (op[p] = "RoundTrip" /\ nFwd[p] = 1 /\ fwd[p].err = ""
            /\ fwd[p].resp.StatusCode = 304) =>
            /\ pc[p] = "done"
            /\ ret[p] = RetResp(fwd[p].resp, "", "forward")
            /\ nSet[p] = 0
            /\ (~Ineligible(req[p]) /\ intr[p] = {}) =>
                  /\ req[p].URL \notin DOMAIN items
                  /\ req[p].URL \notin DOMAIN ts
    /\ \A k \in DOMAIN items :
        (Len(items[k]) > 0 /\ items[k][1].kind = "status") =>
            items[k][1].code # 304

\* A cacheable GET missed, was answered 304 and returned it, nobody else
\* touching the key: the store still has no entry for the key.
C4_Witness ==
    \E p \in Procs :
        /\ op[p] = "RoundTrip" /\ pc[p] = "done"
        /\ req[p].Method = "GET" /\ ~Ineligible(req[p])
        /\ nGet[p] = 1 /\ nFwd[p] = 1 /\ intr[p] = {}
        /\ fwd[p].err = "" /\ fwd[p].resp.StatusCode = 304
        /\ ret[p].resp.StatusCode = 304
        /\ req[p].URL \notin DOMAIN items

\* C5: once the underlying transport has returned an error, RoundTrip has
\* returned that response and that error as they are and has made no
\* Cache.Set; when the request was cacheable and no other goroutine's Set or
\* Delete of the key was in flight during the call, the key has no entry
\* afterwards, and an entry the lookup found and removed had expired.
C5_ForwardFailure ==
    \A p \in Procs :
        (op[p] = "RoundTrip" /\ nFwd[p] = 1 /\ fwd[p].err # "") =>
            /\ pc[p] = "done"
            /\ ret[p] = RetResp(fwd[p].resp, fwd[p].err, "forward")
            /\ nSet[p] = 0
            /\ (~Ineligible(req[p]) /\ intr[p] = {}) =>
                  /\ req[p].URL \notin DOMAIN items
                  /\ req[p].URL \notin DOMAIN ts
                  /\ gOk[p] => chk[p] - gTs[p] > maxTTL

\* The lookup of a cacheable GET found an expired entry and removed it, the
\* forward failed, and the error came back with the transport's response.
C5_Witness ==
    \E p \in Procs :
        /\ op[p] = "RoundTrip" /\ pc[p] = "done"
        /\ ~Ineligible(req[p]) /\ intr[p] = {}
        /\ gOk[p] /\ chk[p] - gTs[p] > maxTTL
        /\ nFwd[p] = 1 /\ fwd[p].err # "" /\ fwd[p].resp.StatusCode = 200
        /\ ret[p].err = fwd[p].err
        /\ req[p].URL \notin DOMAIN items

\* C6: Get returns (the stored bytes, true) exactly when the key had an
\* entry as Get read the maps and the entry's age at the expiry check is at
\* most the TTL, and (nil, false) otherwise; what Get reads under the read
\* lock is what the maps hold.
C6_GetFoundIffFresh ==
    \A p \in Procs :
        op[p] = "Get" =>
            /\ pc[p] = "get_locked" =>
                  /\ gOk[p] <=> key[p] \in DOMAIN items
                  /\ gOk[p] => /\ gResp[p] = items[key[p]]
                               /\ key[p] \in DOMAIN ts
                               /\ gTs[p] = ts[key[p]]
            /\ pc[p] = "done" =>
                  /\ ret[p].ok <=> (gOk[p] /\ chk[p] - gTs[p] <= maxTTL)
                  /\ ret[p] = IF ret[p].ok THEN RetGet(gResp[p], TRUE)
                              ELSE RetGet(NilBytes, FALSE)

\* A Get returned the entry at an age of exactly the TTL.
C6_Witness ==
    \E p \in Procs :
        /\ op[p] = "Get" /\ pc[p] = "done"
        /\ gOk[p] /\ chk[p] - gTs[p] = maxTTL
        /\ ret[p].ok /\ ret[p].bytes # NilBytes

\* A Get that has returned, started after the Set of its key that is still
\* the last one, no other goroutine's Set or Delete of the key in flight
\* during the call.
GetAfterSet(p) ==
    /\ op[p] = "Get" /\ pc[p] = "done"
    /\ first[p].kind = "Set"
    /\ intr[p] = {}

C7_Expired ==
    \A p \in Procs :
        (GetAfterSet(p) /\ chk[p] - first[p].at > maxTTL) =>
            /\ ~ret[p].ok
            /\ key[p] \notin DOMAIN items
            /\ key[p] \notin DOMAIN ts

C7_OnlyDeleteRemoves ==
    \A k \in Keys :
        ((k \in DOMAIN items /\ k \notin DOMAIN items')
            \/ (k \in DOMAIN ts /\ k \notin DOMAIN ts')) =>
        \E p \in Procs :
            /\ key[p] = k
            /\ op[p] \in {"Get", "Delete"}
            /\ pc[p] \in {"delete", "delete_locked"}
            /\ pc'[p] # pc[p]

\* C7: a Get whose expiry check comes more than the TTL after the last Set
\* of its key returns not-found, and when it has returned the key is in
\* neither map; and a key leaves a map only in a step of Delete, called
\* directly or by Get, never in a step of the clock.
C7_TTLExpiry == []C7_Expired /\ [][C7_OnlyDeleteRemoves]_vars

\* A Get found the entry in the map, expired, returned not-found and left
\* the key in neither map.
C7_Witness ==
    \E p \in Procs :
        /\ GetAfterSet(p) /\ chk[p] - first[p].at > maxTTL
        /\ gOk[p] /\ ~ret[p].ok
        /\ key[p] \notin DOMAIN items /\ key[p] \notin DOMAIN ts

\* C8: a Get that follows a completed Set of its key, with no other Set or
\* Delete of the key in flight, and makes its expiry check within the TTL of
\* that Set, returns exactly the bytes of that Set.
C8_SetOverwrites ==
    \A p \in Procs :
        (GetAfterSet(p) /\ chk[p] - first[p].at <= maxTTL) =>
            ret[p] = RetGet(first[p].bytes, TRUE)

\* The Set replaced an entry that had expired and was still in the maps, and
\* the Get after it returned the new bytes.
C8_Witness ==
    \E p \in Procs :
        /\ GetAfterSet(p) /\ chk[p] - first[p].at <= maxTTL
        /\ first[p].over
        /\ ret[p] = RetGet(first[p].bytes, TRUE)

\* m2 is m without key k, every other entry as it was.
Without(m, m2, k) ==
    /\ DOMAIN m2 = DOMAIN m \ {k}
    /\ \A x \in DOMAIN m2 : m2[x] = m[x]
    /\ k \notin DOMAIN m => m2 = m

C9_Returned ==
    \A p \in Procs :
        (op[p] = "Delete" /\ pc[p] = "done") =>
            /\ ret[p] = RetVoid
            /\ intr[p] = {} => /\ key[p] \notin DOMAIN items
                               /\ key[p] \notin DOMAIN ts

C9_Frame ==
    \A p \in Procs :
        /\ (pc[p] = "delete" /\ pc'[p] # pc[p]) =>
              /\ Without(ts, ts', key[p])
              /\ items' = items
        /\ (pc[p] = "delete_locked" /\ pc'[p] # pc[p]) =>
              /\ Without(items, items', key[p])
              /\ ts' = ts

\* C9: Delete takes the key out of both maps and returns; each of its steps
\* leaves every other key's value and timestamp as they were, and changes
\* nothing at all when the key has no entry, so that a second Delete leaves
\* the maps as the first left them.
C9_Delete == []C9_Returned /\ [][C9_Frame]_vars

\* A second Delete of a key in a row has returned, the key is in neither
\* map, and another key still has its entry.
C9_Witness ==
    \E p \in Procs :
        /\ op[p] = "Delete" /\ pc[p] = "done"
        /\ first[p].kind = "Delete" /\ intr[p] = {}
        /\ key[p] \notin DOMAIN items
        /\ \E k \in DOMAIN items : k # key[p] /\ k \in DOMAIN ts

\* The entry of key k is not the same after the step as before.
EntryChanged(m, m2, k) ==
    \/ (k \in DOMAIN m) # (k \in DOMAIN m2)
    \/ k \in DOMAIN m /\ k \in DOMAIN m2 /\ m[k] # m2[k]

C10_OwnKeyOnly ==
    \A k \in Keys :
        (EntryChanged(items, items', k) \/ EntryChanged(ts, ts', k)) =>
        \E p \in Procs :
            /\ key[p] = k
            /\ pc[p] \in {"set", "set_locked", "delete", "delete_locked"}
            /\ pc'[p] # pc[p]

C10_ReadsOwnSet ==
    \A p \in Procs :
        op[p] = "Get" =>
            /\ (pc[p] = "get_locked" /\ gOk[p]) =>
                  /\ last[key[p]].kind = "Set"
                  /\ gResp[p] = last[key[p]].bytes
                  /\ gTs[p] = last[key[p]].at
            /\ (pc[p] = "done" /\ ret[p].ok) => ret[p].bytes = gResp[p]

\* C10: under every interleaving, a step changes the value or the timestamp
\* of a key only if it is a step of a Set or a Delete (Get's own included)
\* called on that very key; and the bytes a Get reads and returns for a key
\* are those of the last Set called on that key.
C10_DistinctKeys == []C10_ReadsOwnSet /\ [][C10_OwnKeyOnly]_vars

\* While one goroutine is in the middle of a Set on one key, a Get on
\* another key has returned that key's bytes, which differ from the bytes
\* being set.
C10_Witness ==
    \E p, q \in Procs :
        /\ op[p] = "Set" /\ pc[p] = "set_locked"
        /\ op[q] = "Get" /\ pc[q] = "done" /\ ret[q].ok
        /\ key[p] # key[q]
        /\ ret[q].bytes # val[p]

\* A Get that has returned, called after a direct Set of its key returned,
\* with no Set and no Delete of the key called by anyone (Get's own Delete of
\* an expired entry and RoundTrip's Set included) from that return until the
\* Get's return, and its expiry check made within the TTL of that Set.
GetAfterQuietSet(p) ==
    /\ op[p] = "Get" /\ pc[p] = "done"
    /\ first[p].kind = "Set" /\ first[p].quiet
    /\ "late" \notin intr[p]
    /\ chk[p] - first[p].at <= maxTTL

\* C11 as stated: a Get called after Set(k, v) returned, no Set or Delete of
\* k called in between, returns v, whatever other store calls are running.
C11_Original ==
    \A p \in Procs :
        GetAfterQuietSet(p) => ret[p] = RetGet(first[p].bytes, TRUE)

\* C11, amended: a Get called after Set(k, v) returned, with no Set and no
\* Delete of k under way at any time from the Set's return to the Get's
\* return (one called before the Set returned and still running included),
\* reads v and the Set's timestamp under the read lock and, its expiry check
\* made within the TTL, returns v, whatever other store calls are running.
C11_SetVisible ==
    \A p \in Procs :
        (op[p] = "Get" /\ first[p].kind = "Set" /\ first[p].quiet
            /\ intr[p] = {}) =>
            /\ pc[p] \in {"get_locked", "done"} =>
                  /\ gOk[p]
                  /\ gResp[p] = first[p].bytes
                  /\ gTs[p] = first[p].at
            /\ (pc[p] = "done" /\ chk[p] - first[p].at <= maxTTL) =>
                  ret[p] = RetGet(first[p].bytes, TRUE)

\* A Get returned the bytes of the Set before it while another goroutine was
\* holding the read lock in a Get of the same key.
C11_Witness ==
    \E p, q \in Procs :
        /\ GetAfterQuietSet(p) /\ intr[p] = {}
        /\ ret[p] = RetGet(first[p].bytes, TRUE)
        /\ q # p /\ op[q] = "Get" /\ key[q] = key[p]
        /\ pc[q] = "get_locked" /\ q \in readers

\* A goroutine in Get (called directly or by lookup) between its expiry
\* check and the lock of its Delete.
GetAboutToDelete(p) == op[p] \in {"Get", "RoundTrip"} /\ pc[p] = "delete"

C12_NoLockHeld ==
    /\ \A p \in Procs :
          GetAboutToDelete(p) =>
              /\ p \notin readers /\ writer # p
              /\ gOk[p] /\ chk[p] - gTs[p] > maxTTL
    /\ \A k \in Keys :
          (last[k].kind \in {"expire", "Delete"} /\ writer = NoWriter) =>
              k \notin DOMAIN items /\ k \notin DOMAIN ts

C12_DeleteUnconditional ==
    \A p \in Procs :
        (GetAboutToDelete(p) /\ pc'[p] # pc[p]) =>
            /\ pc'[p] = "delete_locked"
            /\ key[p] \notin DOMAIN ts'
            /\ last'[key[p]].kind = "expire"
            /\ last'[key[p]].fresh <=>
                   (key[p] \in DOMAIN ts /\ now - ts[key[p]] <= maxTTL)

\* C12: after its expiry check found the entry expired, Get holds neither
\* lock until its Delete takes the write lock, so that a Set of the key can
\* run to its end in between; the Delete then removes whatever entry the key
\* has, without looking at its timestamp, and once it has returned the key is
\* in neither map.
C12_LostSet == []C12_NoLockHeld /\ [][C12_DeleteUnconditional]_vars

\* A Get found an expired entry, a Set of the key ran during the Get, and the
\* Get's Delete then removed an entry that had not expired: the Get returned
\* not-found and the key is in neither map.
C12_Witness ==
    \E p \in Procs :
        /\ op[p] = "Get" /\ pc[p] = "done"
        /\ gOk[p] /\ chk[p] - gTs[p] > maxTTL /\ ~ret[p].ok
        /\ "Set" \in intr[p]
        /\ last[key[p]].kind = "expire" /\ last[key[p]].fresh
        /\ key[p] \notin DOMAIN items /\ key[p] \notin DOMAIN ts

\* C13: every response RoundTrip returns without error for a request that
\* is a GET or HEAD without Range carries the X-Aproxy-Cacheable header, on
\* the hit path and on the forwarding path.
C13_CacheableMarker ==
    \A p \in Procs :
        (op[p] = "RoundTrip" /\ pc[p] = "done" /\ ~Ineligible(req[p])
            /\ ret[p].kind = "resp" /\ ret[p].err = "") =>
            XCacheable \in DOMAIN ret[p].resp.Header

C14_Stripped ==
    \A p \in Procs :
        op[p] = "RoundTrip" =>
            /\ nFwd[p] > 0 => ~req[p].IfNoneMatch
            /\ (pc[p] = "done" /\ ret[p].path = "hit") =>
                  nFwd[p] = 0 /\ fwd[p] = NoFwd

C14_OnlyForwardStrips ==
    \A p \in Procs :
        /\ (op[p] = "RoundTrip" /\ pc[p] = "forward" /\ pc'[p] # pc[p]) =>
              /\ nFwd'[p] = nFwd[p] + 1
              /\ fwd'[p].had = req[p].IfNoneMatch
              /\ req'[p] = [req[p] EXCEPT !.IfNoneMatch = FALSE]
        /\ (op[p] = "RoundTrip" /\ op'[p] = "RoundTrip"
                /\ pc[p] # "forward") => req'[p] = req[p]

Corrupt(b) ==
    \/ Len(b) = 0
    \/ b[1].kind # "status"
    \/ \A i \in 1..Len(b) : b[i].kind # "blank"

\* RoundTrip's Cache.Get has returned found: the entry was there and had not
\* expired at the check.
GetFound(p) ==
    /\ op[p] = "RoundTrip"
    /\ pc[p] \notin {"idle", "get", "get_locked"}
    /\ gOk[p] /\ chk[p] - gTs[p] <= maxTTL

\* C15: when Cache.Get returned found and the bytes are no serialized
\* response, RoundTrip has ended in a panic with the deserializer's error: no
\* response and no error is returned, the underlying transport was not
\* called, no Cache.Set was made, and with nobody else changing the key the
\* corrupt entry is still in the store as it was; and RoundTrip panics in no
\* other case.
C15_CorruptIsFatal ==
    \A p \in Procs :
        /\ (GetFound(p) /\ Corrupt(gResp[p])) =>
              /\ pc[p] = "done"
              /\ ret[p].kind = "panic" /\ ret[p].err # ""
              /\ ret[p].resp = NilResp
              /\ nFwd[p] = 0 /\ fwd[p] = NoFwd
              /\ nSet[p] = 0
              /\ intr[p] = {} =>
                    /\ key[p] \in DOMAIN items /\ items[key[p]] = gResp[p]
                    /\ key[p] \in DOMAIN ts /\ ts[key[p]] = gTs[p]
        /\ ret[p].kind = "panic" => GetFound(p) /\ Corrupt(gResp[p])

\* A GET found bytes that a holder of the store had Set and that are no
\* response: RoundTrip panicked, and the bytes are still in the store.
C15_Witness ==
    \E p \in Procs :
        /\ GetFound(p) /\ pc[p] = "done" /\ req[p].Method = "GET"
        /\ first[p].kind = "Set" /\ intr[p] = {}
        /\ gResp[p] = GarbageBytes
        /\ ret[p].kind = "panic"
        /\ items[key[p]] = GarbageBytes

C16_WholeEntries ==
    /\ writer = NoWriter =>
          /\ DOMAIN items = DOMAIN ts
          /\ \A k \in DOMAIN items :
                /\ last[k].kind \in {"Set", "store"}
                /\ items[k] = last[k].bytes
                /\ ts[k] = last[k].at
    /\ \A p \in Procs :
          pc[p] = "get_locked" =>
              /\ writer = NoWriter /\ p \in readers
              /\ gOk[p] =>
                    /\ last[key[p]].kind \in {"Set", "store"}
                    /\ gResp[p] = last[key[p]].bytes
                    /\ gTs[p] = last[key[p]].at
              /\ ~gOk[p] => gResp[p] = NilBytes /\ gTs[p] = ZeroTime

C16_ReadOnce ==
    \A p \in Procs :
        (pc[p] # "get" /\ pc'[p] # "idle") =>
            /\ gOk'[p] = gOk[p]
            /\ gResp'[p] = gResp[p]
            /\ gTs'[p] = gTs[p]

\* C16: whenever no writer holds the lock, the value map and the timestamp
\* map have the same keys, and each key's value and timestamp are those the
\* same Set wrote; a Get holding the read lock has read the value and the
\* timestamp of one Set, or neither, and decides on expiry with what it read
\* then.
C16_NoPartialEntry == []C16_WholeEntries /\ [][C16_ReadOnce]_vars

\* A Get called while the key held one Set's entry waited for the lock, and
\* read the value and the timestamp of a later Set that replaced both.
C16_Witness ==
    \E p \in Procs :
        /\ op[p] = "Get" /\ pc[p] = "get_locked" /\ gOk[p]
        /\ first[p].kind = "Set"
        /\ gResp[p] # first[p].bytes /\ gTs[p] # first[p].at
        /\ gResp[p] = last[key[p]].bytes /\ gTs[p] = last[key[p]].at

\* RoundTrip p has stored the origin's response and returned.
StoredAndReturned(p) == op[p] = "RoundTrip" /\ pc[p] = "done" /\ nSet[p] = 1

\* RoundTrip q has returned a hit made from the very bytes p stored, p's
\* Set being the last of the key.
HitOnEntryOf(q, p) ==
    /\ q # p /\ StoredAndReturned(p)
    /\ op[q] = "RoundTrip" /\ pc[q] = "done"
    /\ ret[q].kind = "resp" /\ ret[q].path = "hit"
    /\ key[q] = key[p] /\ gResp[q] = val[p]
    /\ last[key[p]].kind = "store" /\ last[key[p]].bytes = val[p]

WithoutMarker(h) == [n \in DOMAIN h \ {XFromCache} |-> h[n]]

\* The two responses agree in status code, headers other than the
\* from-cache marker, and body.
SameButMarker(r1, r2) ==
    /\ r1.StatusCode = r2.StatusCode
    /\ WithoutMarker(r1.Header) = WithoutMarker(r2.Header)
    /\ r1.Body = r2.Body

\* The response the storing call returns is the origin's, status code and
\* headers and body, but for the body of a response to HEAD, which is not
\* written.
C17_CopyOfOrigin ==
    \A p \in Procs :
        StoredAndReturned(p) =>
            /\ ret[p].kind = "resp" /\ ret[p].err = ""
            /\ ret[p].path = "forward"
            /\ ret[p].resp.StatusCode = fwd[p].resp.StatusCode
            /\ ret[p].resp.Header = fwd[p].resp.Header
            /\ ret[p].resp.Body =
                  IF req[p].Method = "HEAD" THEN "" ELSE fwd[p].resp.Body

\* C17 as stated: the response of the storing call and that of any later
\* hit on the entry have the same status code, headers and body, the
\* from-cache marker apart.
C17_Original ==
    /\ C17_CopyOfOrigin
    /\ \A p, q \in Procs :
          HitOnEntryOf(q, p) =>
              /\ SameButMarker(ret[q].resp, ret[p].resp)
              /\ ret[q].resp.Header[XFromCache] = <<"1">>

\* C17, amended: the response of the storing call and that of any later hit
\* on the entry by a request of the same method have the same status code,
\* headers and body, the from-cache marker apart; and the storing call's
\* response is the origin's as serialized and read back.
C17_StoredCopy ==
    /\ C17_CopyOfOrigin
    /\ \A p, q \in Procs :
          (HitOnEntryOf(q, p) /\ req[q].Method = req[p].Method) =>
              /\ SameButMarker(ret[q].resp, ret[p].resp)
              /\ ret[q].resp.Header[XFromCache] = <<"1">>

\* A GET stored the origin's 200 with an Etag header and body hello and
\* returned it unmarked; a later GET was answered from that entry with the
\* same Etag and body, marked.
C17_Witness ==
    \E p, q \in Procs :
        /\ HitOnEntryOf(q, p)
        /\ req[p].Method = "GET" /\ req[q].Method = "GET"
        /\ fwd[p].resp = MkResp(200, EtagHeader, "hello")
        /\ ret[p].resp = fwd[p].resp
        /\ ret[q].resp.Body = "hello"
        /\ "Etag" \in DOMAIN ret[q].resp.Header
        /\ ret[q].resp.Header["Etag"] = <<"v1">>
        /\ HasMarker(ret[q].resp) /\ ~HasMarker(ret[p].resp)

\* A GET or HEAD without Range that has returned, called after a RoundTrip
\* of the other of the two methods stored the entry of its URL, with nobody
\* changing the entry since and the lookup made within the TTL.
CrossMethod(p) ==
    /\ op[p] = "RoundTrip" /\ pc[p] = "done"
    /\ ~Ineligible(req[p])
    /\ first[p].kind = "store"
    /\ first[p].method \in {"GET", "HEAD"} \ {req[p].Method}
    /\ chk[p] - first[p].at <= maxTTL
    /\ intr[p] = {}

C18_CrossHit ==
    \A p \in Procs :
        CrossMethod(p) =>
            /\ nFwd[p] = 0 /\ nSet[p] = 0
            /\ gResp[p] = first[p].bytes
            /\ ret[p] = HitOf(first[p].bytes, req[p])
            /\ ret[p].resp.StatusCode = first[p].bytes[1].code

C18_SameKey ==
    \A p \in Procs :
        (pc[p] = "idle" /\ op'[p] = "RoundTrip" /\ ~Ineligible(req'[p])) =>
            /\ pc'[p] = "get"
            /\ key'[p] = req'[p].URL
            /\ first'[p] = last[req'[p].URL]

\* C18: a GET and a HEAD for the same URL look up and store under the same
\* key, the URL; so a HEAD called within the TTL after a GET stored the
\* entry of the URL, and a GET called after a HEAD stored it, is answered
\* from the bytes the other stored, marked from-cache, and the underlying
\* transport is not called.
C18_KeyCollision == []C18_CrossHit /\ [][C18_SameKey]_vars

\* A HEAD was answered from the bytes a GET had stored, status 200 and the
\* GET's Etag, without the body the GET got.
C18_Witness ==
    \E p \in Procs :
        /\ CrossMethod(p) /\ req[p].Method = "HEAD"
        /\ ret[p].path = "hit" /\ nFwd[p] = 0
        /\ ret[p].resp.StatusCode = 200
        /\ "Etag" \in DOMAIN ret[p].resp.Header
        /\ ret[p].resp.Header["Etag"] = <<"v1">>
        /\ BodyLine("hello") = first[p].bytes[Len(first[p].bytes)]
        /\ ret[p].resp.Body = ""

C19_LocksReleased ==
    /\ writer # NoWriter => readers = {}
    /\ \A p \in Procs :
          /\ p \in readers <=> pc[p] = "get_locked"
          /\ writer = p <=> pc[p] \in {"set_locked", "delete_locked"}

C19_Returns == \A p \in Procs : (pc[p] # "idle") ~> (pc[p] = "done")

\* C19: a goroutine holds the read lock only between Get's RLock and
\* RUnlock and the write lock only inside Set or Delete, so Get holds no lock
\* when it calls Delete and no call returns holding one; and with every
\* goroutine that can take a step taking one in the end, every call of Get,
\* Set and Delete returns.
C19_NoDeadlock == []C19_LocksReleased /\ C19_Returns

\* A Get that found its entry expired has taken the write lock, deleted and
\* returned, and another Get of the key that was under way meanwhile now
\* holds the read lock.
C19_Witness ==
    \E p, q \in Procs :
        /\ op[p] = "Get" /\ pc[p] = "done"
        /\ gOk[p] /\ chk[p] - gTs[p] > maxTTL /\ ~ret[p].ok
        /\ q # p /\ op[q] = "Get" /\ key[q] = key[p]
        /\ "expire" \in intr[q]
        /\ pc[q] = "get_locked" /\ q \in readers /\ writer = NoWriter

\* What the claim says a Set needs: a GET or HEAD without Range, a lookup
\* that missed, a forward without error, a status other than 304, and a body
\* that can be read.
MustStore(p) ==
    /\ ~Ineligible(req[p])
    /\ nGet[p] = 1 /\ nFwd[p] = 1
    /\ fwd[p].err = ""
    /\ fwd[p].resp.StatusCode # 304
    /\ ~fwd[p].bodyErr

\* C20: a RoundTrip that has been through its forward has called Cache.Set,
\* once, exactly when its request was eligible, its lookup missed, the
\* forward returned no error and a status other than 304, and the response
\* could be serialized; the bytes it sets are that response's, whatever the
\* status; a call that returned a hit or panicked has called neither the
\* transport nor Set; and whenever no writer holds the lock, the entry of a
\* key is the one the last Set to take the lock wrote.
C20_WriteCondition ==
    /\ \A p \in Procs :
          op[p] = "RoundTrip" =>
              /\ nSet[p] = (IF nFwd[p] = 1 /\ MustStore(p) THEN 1 ELSE 0)
              /\ nFwd[p] = 1 <=> pc[p] \in {"set", "set_locked", "done"}
                                    /\ ret[p].path # "hit"
              /\ nSet[p] = 1 =>
                    /\ key[p] = req[p].URL
                    /\ val[p][1] = StatusLine(fwd[p].resp.StatusCode)
    /\ writer = NoWriter =>
          \A k \in DOMAIN items :
              /\ last[k].kind \in {"store", "Set"}
              /\ items[k] = last[k].bytes

\* Two RoundTrips for one URL both missed, both called the underlying
\* transport, which answered 404 to one and 200 to the other, and both
\* called Set: the entry is the one written by the Set that came second.
C20_Witness ==
    \E p, q \in Procs :
        /\ p # q /\ StoredAndReturned(p) /\ StoredAndReturned(q)
        /\ key[p] = key[q]
        /\ nGet[p] = 1 /\ nGet[q] = 1 /\ ~gOk[p] /\ ~gOk[q]
        /\ nFwd[p] = 1 /\ nFwd[q] = 1
        /\ fwd[p].resp.StatusCode = 200 /\ fwd[q].resp.StatusCode = 404
        /\ "store" \in intr[p]
        /\ last[key[q]].kind = "store" /\ last[key[q]].bytes = val[q]
        /\ items[key[q]] = val[q] /\ val[q] # val[p]

====
